---- MODULE Spec2Model ----
(***************************************************************************)
(* GitLens history-aggregation engine (src/GitLens/analytics.py and        *)
(* src/GitLens/api.py).                                                    *)
(*                                                                         *)
(* Text is modelled as Python sees it: a line is a sequence of one-        *)
(* character strings, a stream is the sequence of lines that               *)
(* output.splitlines() yields.  Optional values (None or a value) are      *)
(* sequences of length 0 or 1.  The git commands the code runs are the     *)
(* environment: their output is rendered from a repository snapshot in     *)
(* the layout git gives for the arguments the code passes.                 *)
(***************************************************************************)
EXTENDS Integers, Sequences, FiniteSets, TLC

VARIABLES
    follow,     \* evolution: the follow-commit records git walks, newest first
    fe,         \* analyze_file_evolution: the stream, the loop position, the locals, the result
    history,    \* the commits git log walks, newest first: author, timestamp, touched paths
    ch,         \* analyze_code_churn: the stream, the loop position, the locals, the result
    hs,         \* analyze_hotspots: the query results, the loop position, the result
    own,        \* analyze_code_ownership: the tracked files, the loop position, the two maps
    km,         \* analyze_knowledge_map: the ownership maps, the loop position, expertise_map
    tl          \* analyze_commit_history_timeline: the period, the commits, the timeline

vars == <<follow, fe, history, ch, hs, own, km, tl>>

\* an analysis that is not running
Idle == [pc |-> "idle"]

(***************************************************************************)
(* Bounds                                                                  *)
(***************************************************************************)
MaxFollow == 2      \* follow-commit records in an evolution stream
MaxHunk == 2        \* changed lines in one patch
MaxCommits == 3     \* commits in the history a log query walks
MaxTime == 2        \* author timestamps are 1..MaxTime
HotMaxCommits == 2  \* commits in the history the hotspot ranker reads
MaxLines == 2       \* lines of a file at HEAD
MaxBlameLines == 3  \* lines of a blamed file

(***************************************************************************)
(* Python values and string methods                                        *)
(***************************************************************************)
None == <<>>
Some(v) == <<v>>

Whitespace == {" ", "\t"}
Digits == <<"0", "1", "2", "3", "4", "5", "6", "7", "8", "9">>
DigitSet == {Digits[i] : i \in 1..10}
DigitValue(c) == (CHOOSE i \in 1..10 : Digits[i] = c) - 1

\* str.startswith
StartsWith(s, p) == Len(s) >= Len(p) /\ SubSeq(s, 1, Len(p)) = p

\* str.strip
RECURSIVE LStrip(_)
LStrip(s) == IF s # <<>> /\ Head(s) \in Whitespace THEN LStrip(Tail(s)) ELSE s
RECURSIVE RStrip(_)
RStrip(s) ==
    IF s # <<>> /\ s[Len(s)] \in Whitespace THEN RStrip(SubSeq(s, 1, Len(s) - 1)) ELSE s
Strip(s) == RStrip(LStrip(s))

\* str(n) for n >= 0
RECURSIVE Str(_)
Str(n) == IF n < 10 THEN <<Digits[n + 1]>> ELSE Str(n \div 10) \o <<Digits[(n % 10) + 1]>>

\* int(s): surrounding whitespace, an optional sign, then decimal digits;
\* anything else raises ValueError (ok = FALSE)
RECURSIVE DigitsValue(_)
DigitsValue(s) ==
    IF s = <<>> THEN 0 ELSE 10 * DigitsValue(SubSeq(s, 1, Len(s) - 1)) + DigitValue(s[Len(s)])
IntParse(s) ==
    LET t == Strip(s)
        signed == t # <<>> /\ t[1] \in {"+", "-"}
        body == IF signed THEN Tail(t) ELSE t
        ok == body # <<>> /\ \A i \in 1..Len(body) : body[i] \in DigitSet
    IN  [ok |-> ok,
         val |-> IF ~ok THEN 0
                 ELSE IF signed /\ t[1] = "-" THEN 0 - DigitsValue(body)
                 ELSE DigitsValue(body)]

\* concatenation of a sequence of sequences
RECURSIVE Flatten(_)
Flatten(ss) == IF ss = <<>> THEN <<>> ELSE Head(ss) \o Flatten(Tail(ss))

\* all sequences over S of length lo..hi
SeqsOf(S, lo, hi) == UNION {[1..n -> S] : n \in lo..hi}

(***************************************************************************)
(* Evolution tracker: the output of                                        *)
(*   git log --follow --patch --pretty=format:%H%n%an%n%ae%n%at%n%s -- f   *)
(***************************************************************************)
HashChars == <<"a", "b", "c", "d", "e">>
CommitHash(i) == [k \in 1..40 |-> HashChars[i]]

FollowAuthor(i) == <<"u", Digits[i + 1]>>
FollowEmail(i) == <<"u", Digits[i + 1], "@", "x">>
FollowTime(i) == 100 - i

DiffGitPrefix == <<"d", "i", "f", "f", " ", "-", "-", "g", "i", "t", " ">>
\* the lines of a patch: 'diff --git a/f b/f', 'index 1..2', 'new file mode',
\* '--- a/f', '+++ b/f', '@@ -1 +1 @@'
PatchLine ==
    [diff_git |-> DiffGitPrefix \o <<"a", "/", "f", " ", "b", "/", "f">>,
     index |-> <<"i", "n", "d", "e", "x", " ", "1", ".", ".", "2">>,
     new_file |-> <<"n", "e", "w", " ", "f", "i", "l", "e", " ", "m", "o", "d", "e">>,
     minus |-> <<"-", "-", "-", " ", "a", "/", "f">>,
     plus |-> <<"+", "+", "+", " ", "b", "/", "f">>,
     hunk |-> <<"@", "@", " ", "-", "1", " ", "+", "1", " ", "@", "@">>]
\* an added line '+x' and a removed line '-y'
HunkLines == {<<"+", "x">>, <<"-", "y">>}

\* a content change, or the creation of an empty file (no hunk)
ContentPatch(hunk) ==
    <<PatchLine.diff_git, PatchLine.index, PatchLine.minus, PatchLine.plus, PatchLine.hunk>>
    \o hunk
EmptyFilePatch == <<PatchLine.diff_git, PatchLine.new_file, PatchLine.index>>
Patches == {ContentPatch(h) : h \in SeqsOf(HunkLines, 1, MaxHunk)} \cup {EmptyFilePatch}

Subjects == {<<"f", "i", "x">>, <<"-", " ", "w", "i", "p">>}

\* the records of a well-formed stream: every timestamp line is an integer
\* and every record has a patch
FollowRecords == [subject : Subjects, patch : Patches, stamp : {"int"}]
\* the records of any stream: a commit shown without a patch (a merge) has
\* header lines only, and an anomalous record has a timestamp line that is
\* not an integer
StreamRecords ==
    [subject : {<<"f", "i", "x">>}, patch : Patches \cup {<<>>}, stamp : {"int", "text"}]

\* the lines git prints for the i-th record; an empty line follows a patch
\* when another record comes after
RenderFollowRecord(recs, i) ==
    <<CommitHash(i), FollowAuthor(i), FollowEmail(i),
      IF recs[i].stamp = "int" THEN Str(FollowTime(i)) ELSE <<"s", "o", "o", "n">>,
      recs[i].subject>>
    \o recs[i].patch
    \o (IF recs[i].patch # <<>> /\ i < Len(recs) THEN <<<<>>>> ELSE <<>>)
RenderFollow(recs) == Flatten([i \in 1..Len(recs) |-> RenderFollowRecord(recs, i)])

CountAdded(diff) ==
    Cardinality({i \in 1..Len(diff) :
        StartsWith(diff[i], <<"+">>) /\ ~StartsWith(diff[i], <<"+", "+", "+">>)})
CountRemoved(diff) ==
    Cardinality({i \in 1..Len(diff) :
        StartsWith(diff[i], <<"-">>) /\ ~StartsWith(diff[i], <<"-", "-", "-">>)})

FileEvolutionEntry(s) ==
    [commit_hash |-> s.current_commit[1],
     author |-> s.current_author,
     email |-> s.current_email,
     timestamp |-> s.current_timestamp,
     message |-> s.current_message,
     lines_added |-> CountAdded(s.current_diff),
     lines_removed |-> CountRemoved(s.current_diff)]

EvolutionStart(output) ==
    [output |-> output, i |-> 1, pc |-> "loop", evolution |-> <<>>,
     current_commit |-> None, current_author |-> None, current_email |-> None,
     current_timestamp |-> None, current_message |-> None,
     current_diff |-> <<>>, parsing_diff |-> FALSE]

InitEvolution ==
    /\ follow \in SeqsOf(FollowRecords, 0, MaxFollow)
    /\ fe = EvolutionStart(RenderFollow(follow))
    /\ history = <<>>
    /\ ch = Idle
    /\ hs = Idle
    /\ own = Idle
    /\ km = Idle
    /\ tl = Idle

\* one pass of the for loop that fills a header field (the first five branches)
EvoHeaderLine ==
    /\ fe.pc = "loop"
    /\ fe.i <= Len(fe.output)
    /\ LET line == fe.output[fe.i]
           next == [fe EXCEPT !.i = fe.i + 1]
       IN  \/ /\ fe.current_commit = None
              /\ fe' = [next EXCEPT !.current_commit = Some(line)]
           \/ /\ fe.current_commit # None /\ fe.current_author = None
              /\ fe' = [next EXCEPT !.current_author = Some(line)]
           \/ /\ fe.current_commit # None /\ fe.current_author # None
              /\ fe.current_email = None
              /\ fe' = [next EXCEPT !.current_email = Some(line)]
           \/ /\ fe.current_commit # None /\ fe.current_author # None
              /\ fe.current_email # None /\ fe.current_timestamp = None
              /\ IF IntParse(line).ok
                 THEN fe' = [next EXCEPT !.current_timestamp = Some(IntParse(line).val)]
                 ELSE fe' = [fe EXCEPT !.pc = "raised"]
           \/ /\ fe.current_commit # None /\ fe.current_author # None
              /\ fe.current_email # None /\ fe.current_timestamp # None
              /\ fe.current_message = None
              /\ fe' = [next EXCEPT !.current_message = Some(line), !.parsing_diff = TRUE]
    /\ UNCHANGED <<follow, history, ch, hs, own, km, tl>>

\* one pass of the for loop once the five header fields are set: the
\* parsing_diff branch (a line is skipped when parsing_diff is false)
EvoDiffLine ==
    /\ fe.pc = "loop"
    /\ fe.i <= Len(fe.output)
    /\ fe.current_commit # None /\ fe.current_author # None /\ fe.current_email # None
    /\ fe.current_timestamp # None /\ fe.current_message # None
    /\ LET line == fe.output[fe.i]
       IN  IF ~fe.parsing_diff
           THEN fe' = [fe EXCEPT !.i = fe.i + 1]
           ELSE IF StartsWith(line, DiffGitPrefix) /\ fe.current_diff # <<>>
           THEN fe' = [fe EXCEPT
                    !.i = fe.i + 1,
                    !.evolution = Append(fe.evolution, FileEvolutionEntry(fe)),
                    !.current_commit = Some(line),
                    !.current_author = None,
                    !.current_email = None,
                    !.current_timestamp = None,
                    !.current_message = None,
                    !.current_diff = <<line>>,
                    !.parsing_diff = FALSE]
           ELSE fe' = [fe EXCEPT !.i = fe.i + 1, !.current_diff = Append(fe.current_diff, line)]
    /\ UNCHANGED <<follow, history, ch, hs, own, km, tl>>

\* after the loop: process the last diff and return
EvoReturn ==
    /\ fe.pc = "loop"
    /\ fe.i > Len(fe.output)
    /\ fe' = [fe EXCEPT
            !.pc = "done",
            !.evolution = IF fe.current_commit # None /\ fe.current_diff # <<>>
                          THEN Append(fe.evolution, FileEvolutionEntry(fe))
                          ELSE fe.evolution]
    /\ UNCHANGED <<follow, history, ch, hs, own, km, tl>>

NextEvolution == EvoHeaderLine \/ EvoDiffLine \/ EvoReturn

SpecEvolution == InitEvolution /\ [][NextEvolution]_vars

\* the same call over any stream
InitEvolutionStream ==
    /\ follow \in SeqsOf(StreamRecords, 0, MaxFollow)
    /\ fe = EvolutionStart(RenderFollow(follow))
    /\ history = <<>>
    /\ ch = Idle
    /\ hs = Idle
    /\ own = Idle
    /\ km = Idle
    /\ tl = Idle

SpecEvolutionStream == InitEvolutionStream /\ [][NextEvolution]_vars

(***************************************************************************)
(* Evolution tracker claims                                                *)
(***************************************************************************)
EvoReturned == fe.pc = "done"
EvoHashLines == {CommitHash(i) : i \in 1..Len(follow)}

\* C1: for a stream of N follow-commit records the call returns a list, and
\* the list has exactly N entries.
C1_OneEntryPerRecord ==
    /\ fe.pc # "raised"
    /\ EvoReturned => Len(fe.evolution) = Len(follow)

\* C2: every returned entry counts exactly the '+' lines (not '+++') and the
\* '-' lines (not '---') of its own commit's patch text, and no line of
\* another record.
C2_CountsOwnPatch ==
    EvoReturned =>
        \A k \in 1..Len(fe.evolution) :
            k <= Len(follow) =>
                /\ fe.evolution[k].lines_added = CountAdded(follow[k].patch)
                /\ fe.evolution[k].lines_removed = CountRemoved(follow[k].patch)

\* C3: the i-th returned entry carries the hash, author, email, timestamp and
\* subject of the i-th record, and in every parser state the current commit
\* hash is a hash line of the stream, never a patch line.
C3_EntryIsItsRecord ==
    /\ fe.current_commit # None => fe.current_commit[1] \in EvoHashLines
    /\ EvoReturned =>
        \A k \in 1..Len(fe.evolution) :
            k <= Len(follow) =>
                /\ fe.evolution[k].commit_hash = CommitHash(k)
                /\ fe.evolution[k].author = Some(FollowAuthor(k))
                /\ fe.evolution[k].email = Some(FollowEmail(k))
                /\ fe.evolution[k].timestamp = Some(FollowTime(k))
                /\ fe.evolution[k].message = Some(follow[k].subject)

\* the records of the stream whose timestamp line is not an integer
Anomalous == {k \in 1..Len(follow) : follow[k].stamp = "text"}

\* C17: when one record of the stream is malformed (its timestamp line is not
\* an integer), the parser does not raise; it drops that record and returns
\* the entries of the well-formed records.
C17_AnomalyDroppedNotRaised ==
    Cardinality(Anomalous) = 1 =>
        /\ fe.pc # "raised"
        /\ EvoReturned =>
            {fe.evolution[k].commit_hash : k \in 1..Len(fe.evolution)}
                = {CommitHash(k) : k \in (1..Len(follow)) \ Anomalous}

\* C19: a record whose patch text is empty, the last or the only record of
\* the stream, still yields an entry for its commit, with lines_removed = 0.
C19_EmptyPatchYieldsEntry ==
    (EvoReturned /\ follow # <<>> /\ follow[Len(follow)].patch = <<>>) =>
        \E k \in 1..Len(fe.evolution) :
            /\ fe.evolution[k].commit_hash = CommitHash(Len(follow))
            /\ fe.evolution[k].lines_removed = 0

(***************************************************************************)
(* Ordered dictionaries (Python dict keeps insertion order): a sequence    *)
(* of [key, val] items with distinct keys                                  *)
(***************************************************************************)
DictKeys(d) == {d[i].key : i \in 1..Len(d)}
DictHas(d, k) == k \in DictKeys(d)
DictGet(d, k) == d[CHOOSE i \in 1..Len(d) : d[i].key = k].val
DictSet(d, k, v) ==
    IF DictHas(d, k)
    THEN [i \in 1..Len(d) |-> IF d[i].key = k THEN [key |-> k, val |-> v] ELSE d[i]]
    ELSE Append(d, [key |-> k, val |-> v])

\* list.sort(key=..., reverse=True) over items [k, v]: descending by k, items
\* with equal k keep their order
RECURSIVE InsertDescendingUnstable(_, _)
InsertDescendingUnstable(sorted, item) ==
    IF sorted = <<>> THEN <<item>>
    ELSE IF Head(sorted).k > item.k
         THEN <<Head(sorted)>> \o InsertDescendingUnstable(Tail(sorted), item)
         ELSE <<item>> \o sorted
RECURSIVE InsertDescending(_, _)
InsertDescending(sorted, item) ==
    IF sorted = <<>> THEN <<item>>
    ELSE IF Head(sorted).k >= item.k
         THEN <<Head(sorted)>> \o InsertDescending(Tail(sorted), item)
         ELSE <<item>> \o sorted
RECURSIVE SortDescending(_)
SortDescending(items) ==
    IF items = <<>> THEN <<>>
    ELSE InsertDescending(SortDescending(SubSeq(items, 1, Len(items) - 1)), items[Len(items)])

(***************************************************************************)
(* The history a log query walks, and the two name-only renderings of it   *)
(***************************************************************************)
Alice == <<"a", "l", "i", "c", "e">>
Bob == <<"b", "o", "b">>
Authors == {Alice, Bob}

\* a.py and b.py; git lists the paths of a commit in byte order
PathOrder == <<<<"a", ".", "p", "y">>, <<"b", ".", "p", "y">>>>
Paths == {PathOrder[i] : i \in 1..Len(PathOrder)}

\* a commit that lists no path is a merge or an empty commit
Commits(authors, times, paths) == [author : authors, timestamp : times, paths : SUBSET paths]
Histories == SeqsOf(Commits(Authors, 1..MaxTime, Paths), 0, MaxCommits)

\* the members of a set of paths, in the order of a listing
RECURSIVE Listed(_, _)
Listed(order, set) ==
    IF order = <<>> THEN <<>>
    ELSE (IF Head(order) \in set THEN <<Head(order)>> ELSE <<>>) \o Listed(Tail(order), set)

\* git log --name-only --pretty=format:<header lines>: the header of a
\* commit, then its paths; an empty line follows the paths when another
\* commit comes after, and nothing separates a commit without paths from the
\* next header
RenderNameOnly(h, order, headers) ==
    Flatten([i \in 1..Len(h) |->
        headers[i] \o Listed(order, h[i].paths)
        \o (IF h[i].paths # {} /\ i < Len(h) THEN <<<<>>>> ELSE <<>>)])

\* git log --name-only --pretty=format:%H
RenderChurnLog(h, order) ==
    RenderNameOnly(h, order, [i \in 1..Len(h) |-> <<CommitHash(i)>>])

\* git log --name-only --pretty=format:%an%n%at
RenderFrequencyLog(h, order) ==
    RenderNameOnly(h, order, [i \in 1..Len(h) |-> <<h[i].author, Str(h[i].timestamp)>>])

(***************************************************************************)
(* The window of a log query: the options, the arguments built from them,  *)
(* and the commits git log walks for the arguments                         *)
(***************************************************************************)
\* Python truthiness of an optional integer: None and 0 are false
Truthy(opt) == opt # None /\ opt[1] # 0
\* the constraint an option becomes: the option if the if statement takes it
ArgOf(opt) == IF Truthy(opt) THEN opt ELSE None
\* args of analyze_commit_history_timeline
TimelineArgs(options) ==
    [author |-> IF options.author_filter # None THEN options.author_filter ELSE None,
     since |-> ArgOf(options.since_date),
     until |-> ArgOf(options.until_date),
     max_count |-> ArgOf(options.max_commits),
     skip |-> ArgOf(options.skip_commits)]
\* the first n items of a sequence
Take(seq, n) == SubSeq(seq, 1, IF n < Len(seq) THEN n ELSE Len(seq))
\* git log, as the positions in h of the commits it walks: the commits by
\* the author, not older than since and not newer than until, then without
\* the first skip of them, then at most max_count; a negative count is no
\* limit and a negative skip skips nothing
GitLogIndices(h, args) ==
    LET InWindow(i) ==
            /\ args.author = None \/ h[i].author = args.author[1]
            /\ args.since = None \/ h[i].timestamp >= args.since[1]
            /\ args.until = None \/ h[i].timestamp <= args.until[1]
        filtered == SelectSeq([i \in 1..Len(h) |-> i], InWindow)
        skip == IF args.skip = None \/ args.skip[1] < 0 THEN 0 ELSE args.skip[1]
        skipped == SubSeq(filtered, skip + 1, Len(filtered))
    IN  IF args.max_count = None \/ args.max_count[1] < 0 THEN skipped
        ELSE Take(skipped, args.max_count[1])
GitLog(h, args) ==
    [k \in 1..Len(GitLogIndices(h, args)) |-> h[GitLogIndices(h, args)[k]]]
\* no option set
NoWindow ==
    [author_filter |-> None, since_date |-> None, until_date |-> None,
     max_commits |-> None, skip_commits |-> None]
\* args of analyze_code_churn: it has no --skip
ChurnArgs(options) == [TimelineArgs(options) EXCEPT !.skip = None]

(***************************************************************************)
(* Repository.analyze_change_frequency                                     *)
(***************************************************************************)
FrequencyStart ==
    [change_counts |-> <<>>, last_modified |-> <<>>, file_authors |-> <<>>,
     current_author |-> None, current_timestamp |-> None, raised |-> FALSE]

\* one pass of the for loop over the lines of the log
FrequencyLine(s, line) ==
    IF s.raised THEN s
    ELSE IF Strip(line) = <<>>
    THEN [s EXCEPT !.current_author = None, !.current_timestamp = None]
    ELSE IF s.current_author = None
    THEN [s EXCEPT !.current_author = Some(line)]
    ELSE IF s.current_timestamp = None
    THEN IF IntParse(line).ok
         THEN [s EXCEPT !.current_timestamp = Some(IntParse(line).val)]
         ELSE [s EXCEPT !.raised = TRUE]
    ELSE LET path == line
             author == s.current_author[1]
             count == IF DictHas(s.change_counts, path)
                      THEN DictGet(s.change_counts, path) ELSE 0
             newer == \/ ~DictHas(s.last_modified, path)
                      \/ s.current_timestamp[1] > DictGet(s.last_modified, path)
             authors == IF DictHas(s.file_authors, path)
                        THEN DictGet(s.file_authors, path) ELSE <<>>
             author_count == IF DictHas(authors, author) THEN DictGet(authors, author) ELSE 0
         IN  [s EXCEPT
                !.change_counts = DictSet(s.change_counts, path, count + 1),
                !.last_modified = IF newer
                                  THEN DictSet(s.last_modified, path, s.current_timestamp[1])
                                  ELSE s.last_modified,
                !.file_authors = DictSet(s.file_authors, path,
                                         DictSet(authors, author, author_count + 1))]

RECURSIVE FrequencyLoop(_, _)
FrequencyLoop(s, lines) ==
    IF lines = <<>> THEN s ELSE FrequencyLoop(FrequencyLine(s, Head(lines)), Tail(lines))

\* the loop that finds the primary owner: the first author, in the order
\* of the dictionary, whose count is greater than every count before it
RECURSIVE PrimaryOwner(_, _, _)
PrimaryOwner(authors, owner, max_count) ==
    IF authors = <<>> THEN owner
    ELSE IF Head(authors).val > max_count
         THEN PrimaryOwner(Tail(authors), Some(Head(authors).key), Head(authors).val)
         ELSE PrimaryOwner(Tail(authors), owner, max_count)

FileChangeFrequency(s, item) ==
    LET authors == IF DictHas(s.file_authors, item.key)
                   THEN DictGet(s.file_authors, item.key) ELSE <<>>
    IN  [path |-> item.key,
         change_count |-> item.val,
         last_modified |-> IF DictHas(s.last_modified, item.key)
                           THEN DictGet(s.last_modified, item.key) ELSE 0,
         authors |-> [i \in 1..Len(authors) |-> authors[i].key],
         primary_owner |-> PrimaryOwner(authors, None, 0)]

\* the list returned, sorted by change count; raised when int() failed
analyze_change_frequency(output) ==
    LET s == FrequencyLoop(FrequencyStart, output)
        result == [i \in 1..Len(s.change_counts) |-> FileChangeFrequency(s, s.change_counts[i])]
        keyed == [i \in 1..Len(result) |-> [k |-> result[i].change_count, v |-> result[i]]]
        sorted == SortDescending(keyed)
    IN  [raised |-> s.raised,
         result |-> IF s.raised THEN <<>> ELSE [i \in 1..Len(sorted) |-> sorted[i].v]]

(***************************************************************************)
(* Analytics.analyze_code_churn                                            *)
(***************************************************************************)
ChurnStart(output, options) ==
    [output |-> output, i |-> 1, pc |-> "loop", current_commit |-> None,
     churn |-> <<>>, frequency_data |-> <<>>, options |-> options]

InitChurn ==
    /\ history \in Histories
    /\ ch = ChurnStart(RenderChurnLog(history, PathOrder), NoWindow)
    /\ follow = <<>>
    /\ fe = Idle
    /\ hs = Idle
    /\ own = Idle
    /\ km = Idle
    /\ tl = Idle

\* one pass of the for loop over the lines of the log
ChurnLine ==
    /\ ch.pc = "loop"
    /\ ch.i <= Len(ch.output)
    /\ LET line == ch.output[ch.i]
           next == [ch EXCEPT !.i = ch.i + 1]
           metrics == IF DictHas(ch.churn, line) THEN DictGet(ch.churn, line)
                      ELSE [change_count |-> 0, commits |-> {}]
       IN  IF Strip(line) = <<>>
           THEN ch' = next
           ELSE IF ch.current_commit = None
           THEN ch' = [next EXCEPT !.current_commit = Some(line)]
           ELSE ch' = [next EXCEPT !.churn = DictSet(ch.churn, line,
                        [change_count |-> metrics.change_count + 1,
                         commits |-> metrics.commits \cup {ch.current_commit[1]}])]
    /\ UNCHANGED <<follow, fe, history, hs, own, km, tl>>

\* the update of one churn record from its frequency entry
MergeFrequency(metrics, entry) ==
    [change_count |-> metrics.change_count,
     commits |-> metrics.commits,
     last_modified |-> Some(entry.last_modified),
     authors |-> Some(entry.authors),
     primary_owner |-> Some(entry.primary_owner)]

Unmerged(metrics) ==
    [change_count |-> metrics.change_count,
     commits |-> metrics.commits,
     last_modified |-> None, authors |-> None, primary_owner |-> None]

RECURSIVE MergeAll(_, _)
MergeAll(churn, frequency_data) ==
    IF frequency_data = <<>> THEN churn
    ELSE LET entry == Head(frequency_data)
         IN  MergeAll(IF DictHas(churn, entry.path)
                      THEN DictSet(churn, entry.path, MergeFrequency(DictGet(churn, entry.path), entry))
                      ELSE churn,
                      Tail(frequency_data))

\* after the loop: query the change frequency of the repository, merge it
\* into the churn records and return
ChurnMerge ==
    /\ ch.pc = "loop"
    /\ ch.i > Len(ch.output)
    /\ LET frequency == analyze_change_frequency(RenderFrequencyLog(history, PathOrder))
           unmerged == [i \in 1..Len(ch.churn) |->
                            [key |-> ch.churn[i].key, val |-> Unmerged(ch.churn[i].val)]]
       IN  IF frequency.raised
           THEN ch' = [ch EXCEPT !.pc = "raised"]
           ELSE ch' = [ch EXCEPT !.pc = "done",
                                 !.frequency_data = frequency.result,
                                 !.churn = MergeAll(unmerged, frequency.result)]
    /\ UNCHANGED <<follow, fe, history, hs, own, km, tl>>

NextChurn == ChurnLine \/ ChurnMerge

SpecChurn == InitChurn /\ [][NextChurn]_vars

\* the same call with a window, over histories in which every commit lists a
\* path; the log of the window keeps the hashes of the commits
ChurnOptions ==
    [author_filter : {None, Some(Bob)}, since_date : {None}, until_date : {None},
     max_commits : {None, Some(1)}, skip_commits : {None}]
RenderChurnWindow(h, args, order) ==
    RenderNameOnly(GitLog(h, args), order,
                   [k \in 1..Len(GitLogIndices(h, args)) |->
                       <<CommitHash(GitLogIndices(h, args)[k])>>])
InitChurnWindow ==
    /\ history \in SeqsOf({c \in Commits(Authors, 1..MaxTime, Paths) : c.paths # {}},
                          0, MaxCommits)
    /\ \E options \in ChurnOptions :
        ch = ChurnStart(RenderChurnWindow(history, ChurnArgs(options), PathOrder), options)
    /\ follow = <<>>
    /\ fe = Idle
    /\ hs = Idle
    /\ own = Idle
    /\ km = Idle
    /\ tl = Idle

SpecChurnWindow == InitChurnWindow /\ [][NextChurn]_vars

(***************************************************************************)
(* Churn and change-frequency claims                                       *)
(***************************************************************************)
ChurnReturned == ch.pc = "done"
\* the commits of the history whose touched-path list contains p
Touching(p) == {i \in 1..Len(history) : p \in history[i].paths}
ChangeCount(p) == IF DictHas(ch.churn, p) THEN DictGet(ch.churn, p).change_count ELSE 0

\* C4: change_count[path] is the number of distinct commits whose touched
\* paths contain the path, for every path and every key of the churn map.
C4_ChangeCountIsCommitCount ==
    ChurnReturned =>
        \A p \in Paths \cup DictKeys(ch.churn) : ChangeCount(p) = Cardinality(Touching(p))

\* C5: the commits set of the churn record of every path is exactly the set
\* of hashes of the commits that touched the path, so len(commits) =
\* change_count.
C5_CommitsSetIsTouchingCommits ==
    ChurnReturned =>
        \A p \in Paths \cap DictKeys(ch.churn) :
            /\ DictGet(ch.churn, p).commits = {CommitHash(i) : i \in Touching(p)}
            /\ Cardinality(DictGet(ch.churn, p).commits) = DictGet(ch.churn, p).change_count

\* the number of commits by author a that touched p, and the author the
\* claim names: the highest count, and of those with the highest count the
\* one whose first touch comes first in the stream
TouchesBy(p, a) == Cardinality({i \in Touching(p) : history[i].author = a})
FirstTouchBy(p, a) == CHOOSE i \in Touching(p) :
    /\ history[i].author = a
    /\ \A j \in Touching(p) : history[j].author = a => i <= j
TopAuthors(p) == {a \in Authors : TouchesBy(p, a) > 0 /\ \A b \in Authors : TouchesBy(p, b) <= TouchesBy(p, a)}
ExpectedOwner(p) == CHOOSE a \in TopAuthors(p) :
    \A b \in TopAuthors(p) : FirstTouchBy(p, a) <= FirstTouchBy(p, b)
FrequencyEntry(p) == ch.frequency_data[CHOOSE i \in 1..Len(ch.frequency_data) : ch.frequency_data[i].path = p]

\* C6: for every path with at least one touch, primary_owner (of the
\* frequency entry and of the churn record merged from it) is the author with
\* the most touching commits, the first encountered of those that tie; no entry
\* with a recorded author has primary_owner None.
C6_PrimaryOwner ==
    ChurnReturned =>
        /\ \A p \in Paths : Touching(p) # {} =>
            /\ FrequencyEntry(p).primary_owner = Some(ExpectedOwner(p))
            /\ DictGet(ch.churn, p).primary_owner = Some(Some(ExpectedOwner(p)))
        /\ \A i \in 1..Len(ch.frequency_data) :
            ch.frequency_data[i].authors # <<>> => ch.frequency_data[i].primary_owner # None

\* the commits of the window of the churn query that touched p
Counted(p) ==
    {i \in 1..Len(history) :
        /\ \E k \in 1..Len(GitLogIndices(history, ChurnArgs(ch.options))) :
            GitLogIndices(history, ChurnArgs(ch.options))[k] = i
        /\ p \in history[i].paths}

\* C20: for every window and every path of the churn map that received
\* merged metadata, change_count equals the change_count of the frequency
\* entry it was merged from, and last_modified and authors are the greatest
\* timestamp and the author set of exactly the commits counted in
\* change_count.
C20_ChurnAgreesWithFrequency ==
    ChurnReturned =>
        \A p \in Paths \cap DictKeys(ch.churn) :
            DictGet(ch.churn, p).last_modified # None =>
                /\ DictGet(ch.churn, p).change_count = FrequencyEntry(p).change_count
                /\ DictGet(ch.churn, p).change_count = Cardinality(Counted(p))
                /\ \A i \in Counted(p) :
                    history[i].timestamp <= DictGet(ch.churn, p).last_modified[1]
                /\ \E i \in Counted(p) :
                    history[i].timestamp = DictGet(ch.churn, p).last_modified[1]
                /\ {DictGet(ch.churn, p).authors[1][k] :
                        k \in 1..Len(DictGet(ch.churn, p).authors[1])}
                    = {history[i].author : i \in Counted(p)}

(***************************************************************************)
(* Analytics.analyze_hotspots                                              *)
(***************************************************************************)
\* str.lower, for the letters the paths of the model use
Lower(s) ==
    [i \in 1..Len(s) |-> IF s[i] = "P" THEN "p" ELSE IF s[i] = "Y" THEN "y"
                         ELSE IF s[i] = "M" THEN "m" ELSE s[i]]
\* sub in s
Contains(s, sub) == \E i \in 0..(Len(s) - Len(sub)) : SubSeq(s, i + 1, i + Len(sub)) = sub
\* s.split(c)[-1]: the text after the last c, all of s when there is none
RECURSIVE AfterLast(_, _)
AfterLast(s, c) ==
    IF s = <<>> THEN <<>>
    ELSE IF s[Len(s)] = c THEN <<>>
    ELSE IF \E i \in 1..Len(s) : s[i] = c
         THEN AfterLast(SubSeq(s, 1, Len(s) - 1), c) \o <<s[Len(s)]>>
         ELSE s

source_extensions ==
    {<<".", "r", "s">>, <<".", "p", "y">>, <<".", "j", "a", "v", "a">>, <<".", "j", "s">>,
     <<".", "t", "s">>, <<".", "c">>, <<".", "c", "p", "p">>, <<".", "h">>, <<".", "g", "o">>,
     <<".", "r", "b">>, <<".", "p", "h", "p">>, <<".", "c", "s">>}

is_source_file(path) ==
    LET ext == IF Contains(path, <<".">>) THEN AfterLast(Lower(path), ".") ELSE <<>>
    IN  /\ (<<".">> \o ext) \in source_extensions
        /\ ~Contains(path, <<"/", "n", "o", "d", "e", "_", "m", "o", "d", "u", "l", "e", "s", "/">>)
        /\ ~Contains(path, <<"/", "v", "e", "n", "d", "o", "r", "/">>)

\* the files of the repository, in the order git ls-files lists them:
\* a.PY, b.py, lib/vendor/c.go, vendor/d.go
HotPathOrder ==
    <<<<"a", ".", "P", "Y">>,
      <<"b", ".", "p", "y">>,
      <<"l", "i", "b", "/", "v", "e", "n", "d", "o", "r", "/", "c", ".", "g", "o">>,
      <<"v", "e", "n", "d", "o", "r", "/", "d", ".", "g", "o">>>>
HotPaths == {HotPathOrder[i] : i \in 1..Len(HotPathOrder)}
HotHistories == SeqsOf(Commits({Alice}, {1}, HotPaths), 0, HotMaxCommits)

\* git show HEAD:<path>: the command fails, or prints the lines of the file
ShowResults == [ok : {FALSE}, lines : {0}] \cup [ok : {TRUE}, lines : 0..MaxLines]

\* hotspot_factor = churn_factor * complexity ** 0.5 / 1000.0 is kept as the
\* integer (1000 * hotspot_factor) ** 2; both are >= 0, so sign, order and
\* ties are those of the float for the values within the bounds
HotspotFactor(churn_factor, complexity) == churn_factor * churn_factor * complexity

\* if hotspot_factor > 0
KeepsEntryOrZero(hotspot_factor) == hotspot_factor >= 0
KeepsEntry(hotspot_factor) == hotspot_factor > 0

HotspotEntry(file_path, churn_factor, complexity) ==
    [file_path |-> file_path, churn_factor |-> churn_factor, complexity |-> complexity,
     hotspot_factor |-> HotspotFactor(churn_factor, complexity)]

\* next((f for f in frequency_data if f.path == file_path), None)
FindFrequency(frequency_data, file_path) ==
    LET hits == {i \in 1..Len(frequency_data) : frequency_data[i].path = file_path}
    IN  IF hits = {} THEN None
        ELSE Some(frequency_data[CHOOSE i \in hits : \A j \in hits : i <= j])

\* [f for f in tracked_files if is_source_file(f)]
RECURSIVE SourceFiles(_)
SourceFiles(files) ==
    IF files = <<>> THEN <<>>
    ELSE (IF is_source_file(Head(files)) THEN <<Head(files)>> ELSE <<>>) \o SourceFiles(Tail(files))

InitHotspots ==
    /\ hs = [pc |-> "frequency", frequency_data |-> <<>>, tracked_files |-> <<>>,
             source_files |-> <<>>, i |-> 1, hotspots |-> <<>>, shown |-> <<>>]
    /\ history = <<>>
    /\ follow = <<>>
    /\ fe = Idle
    /\ ch = Idle
    /\ own = Idle
    /\ km = Idle
    /\ tl = Idle

\* frequency_data = repo.analyze_change_frequency()
HotFrequency ==
    /\ hs.pc = "frequency"
    /\ \E h \in HotHistories :
        LET frequency == analyze_change_frequency(RenderFrequencyLog(h, HotPathOrder))
        IN  hs' = IF frequency.raised THEN [hs EXCEPT !.pc = "raised"]
                  ELSE [hs EXCEPT !.pc = "list", !.frequency_data = frequency.result]
    /\ UNCHANGED <<follow, fe, history, ch, own, km, tl>>

\* tracked_files = repo.list_tracked(), and the filter that keeps the source files
HotListTracked ==
    /\ hs.pc = "list"
    /\ \E tracked \in SUBSET HotPaths :
        hs' = [hs EXCEPT !.pc = "loop",
                         !.tracked_files = Listed(HotPathOrder, tracked),
                         !.source_files = SourceFiles(Listed(HotPathOrder, tracked))]
    /\ UNCHANGED <<follow, fe, history, ch, own, km, tl>>

\* one pass of the loop over source_files; shown records what git show answered
HotFile ==
    /\ hs.pc = "loop"
    /\ hs.i <= Len(hs.source_files)
    /\ LET file_path == hs.source_files[hs.i]
           frequency_entry == FindFrequency(hs.frequency_data, file_path)
       IN  IF frequency_entry = None
           THEN hs' = [hs EXCEPT !.i = hs.i + 1]
           ELSE \E show \in ShowResults :
                LET churn_factor == frequency_entry[1].change_count
                    complexity == IF show.ok THEN show.lines ELSE 0
                IN  hs' = [hs EXCEPT
                        !.i = hs.i + 1,
                        !.shown = DictSet(hs.shown, file_path, show),
                        !.hotspots = IF KeepsEntry(HotspotFactor(churn_factor, complexity))
                                     THEN Append(hs.hotspots,
                                                 HotspotEntry(file_path, churn_factor, complexity))
                                     ELSE hs.hotspots]
    /\ UNCHANGED <<follow, fe, history, ch, own, km, tl>>

\* hotspots.sort(key=lambda x: x.hotspot_factor, reverse=True); return hotspots
HotReturn ==
    /\ hs.pc = "loop"
    /\ hs.i > Len(hs.source_files)
    /\ LET keyed == [i \in 1..Len(hs.hotspots) |->
                        [k |-> hs.hotspots[i].hotspot_factor, v |-> hs.hotspots[i]]]
           sorted == SortDescending(keyed)
       IN  hs' = [hs EXCEPT !.pc = "done",
                            !.hotspots = [i \in 1..Len(sorted) |-> sorted[i].v]]
    /\ UNCHANGED <<follow, fe, history, ch, own, km, tl>>

NextHotspots == HotFrequency \/ HotListTracked \/ HotFile \/ HotReturn

SpecHotspots == InitHotspots /\ [][NextHotspots]_vars

(***************************************************************************)
(* Hotspot claims                                                          *)
(***************************************************************************)
HotReturned == hs.pc = "done"
HotRanked == {hs.hotspots[i].file_path : i \in 1..Len(hs.hotspots)}
TrackedIndex(path) == CHOOSE i \in 1..Len(hs.tracked_files) : hs.tracked_files[i] = path
Unreadable(path) == DictHas(hs.shown, path) /\ ~DictGet(hs.shown, path).ok

\* the components of a path, separated by '/'
RECURSIVE Components(_)
Components(path) ==
    IF ~Contains(path, <<"/">>) THEN {path}
    ELSE LET i == CHOOSE k \in 1..Len(path) : path[k] = "/" /\ \A j \in 1..(k - 1) : path[j] # "/"
         IN  {SubSeq(path, 1, i - 1)} \cup Components(SubSeq(path, i + 1, Len(path)))
VendoredNames == {<<"v", "e", "n", "d", "o", "r">>,
                  <<"n", "o", "d", "e", "_", "m", "o", "d", "u", "l", "e", "s">>}

\* C7: no returned entry has a path with a component named 'vendor' or
\* 'node_modules', the first component of the path included.
C7_NoVendoredPath ==
    HotReturned => \A p \in HotRanked : Components(p) \cap VendoredNames = {}

\* C8: every entry has hotspot_factor > 0, churn_factor >= 1 and complexity
\* >= 1; a source file whose content cannot be read is omitted and does not
\* abort the scan: the call returns, and exactly the source files with a
\* frequency entry and at least one readable line are ranked, each once.
C8_PositiveFactorAndSkip ==
    /\ hs.pc # "raised"
    /\ hs.pc \in {"loop", "done"} =>
        /\ \A i \in 1..Len(hs.hotspots) :
            /\ hs.hotspots[i].hotspot_factor > 0
            /\ hs.hotspots[i].churn_factor >= 1
            /\ hs.hotspots[i].complexity >= 1
        /\ \A p \in HotRanked : ~Unreadable(p)
    /\ HotReturned =>
        /\ HotRanked = {hs.source_files[i] : i \in
                {j \in 1..Len(hs.source_files) :
                    /\ FindFrequency(hs.frequency_data, hs.source_files[j]) # None
                    /\ DictGet(hs.shown, hs.source_files[j]).ok
                    /\ DictGet(hs.shown, hs.source_files[j]).lines >= 1}}
        /\ Cardinality(HotRanked) = Len(hs.hotspots)

\* a scan is over in which one file could not be read and a file listed
\* after it is ranked
C8_Witness ==
    /\ HotReturned
    /\ \E p \in DictKeys(hs.shown), q \in HotRanked :
        Unreadable(p) /\ TrackedIndex(p) < TrackedIndex(q)

\* C9: the returned list is non-increasing in hotspot_factor, and entries
\* with equal hotspot_factor are in the order of the tracked-file listing.
C9_StableDescending ==
    HotReturned =>
        \A i, j \in 1..Len(hs.hotspots) : i < j =>
            /\ hs.hotspots[i].hotspot_factor >= hs.hotspots[j].hotspot_factor
            /\ hs.hotspots[i].hotspot_factor = hs.hotspots[j].hotspot_factor =>
                TrackedIndex(hs.hotspots[i].file_path) < TrackedIndex(hs.hotspots[j].file_path)

\* a returned list in which two entries tie and the sort moved an entry
\* ahead of one listed before it
C9_Witness ==
    /\ HotReturned
    /\ \E i, j \in 1..Len(hs.hotspots) :
        i < j /\ hs.hotspots[i].hotspot_factor = hs.hotspots[j].hotspot_factor
    /\ \E i, j \in 1..Len(hs.hotspots) :
        /\ i < j
        /\ hs.hotspots[i].hotspot_factor > hs.hotspots[j].hotspot_factor
        /\ TrackedIndex(hs.hotspots[i].file_path) > TrackedIndex(hs.hotspots[j].file_path)

(***************************************************************************)
(* Repository.blame: the output of git blame --porcelain <file>            *)
(***************************************************************************)
HashLen == 40
HexChars == DigitSet \cup {"a", "b", "c", "d", "e", "f"}

\* the commits the lines of a file come from
BlameCommits == <<[author |-> Alice, timestamp |-> 1], [author |-> Bob, timestamp |-> 2]>>
\* the text of the k-th line of a file
BlameContent == <<<<"x">>, <<"a", "u", "t", "h", "o", "r", " ", "z">>, <<>>>>

AuthorPrefix == <<"a", "u", "t", "h", "o", "r", " ">>
AuthorTimePrefix == <<"a", "u", "t", "h", "o", "r", "-", "t", "i", "m", "e", " ">>
OriginalLinePrefix ==
    <<"o", "r", "i", "g", "i", "n", "a", "l", "-", "l", "i", "n", "e", " ">>
\* the header lines of a commit the parser has no branch for:
\* 'author-mail <a@x>', 'summary fix', 'filename f'
BlameHeader ==
    [author_mail |-> <<"a", "u", "t", "h", "o", "r", "-", "m", "a", "i", "l", " ",
                       "<", "a", "@", "x", ">">>,
     summary |-> <<"s", "u", "m", "m", "a", "r", "y", " ", "f", "i", "x">>,
     filename |-> <<"f", "i", "l", "e", "n", "a", "m", "e", " ", "f">>]

\* the lines git prints for line k of a file whose lines come from the
\* commits origin[1], origin[2], ...: the hash line, the commit's header lines
\* when the commit appears for the first time, then a tab and the text
RenderBlameLine(origin, k) ==
    LET c == origin[k]
        first == \A j \in 1..(k - 1) : origin[j] # c
    IN  <<CommitHash(c) \o <<" ">> \o Str(k) \o <<" ">> \o Str(k)>>
        \o (IF first
            THEN <<AuthorPrefix \o BlameCommits[c].author,
                   BlameHeader.author_mail,
                   AuthorTimePrefix \o Str(BlameCommits[c].timestamp),
                   BlameHeader.summary,
                   BlameHeader.filename>>
            ELSE <<>>)
        \o <<<<"\t">> \o BlameContent[((k - 1) % Len(BlameContent)) + 1]>>
RenderBlame(origin) == Flatten([k \in 1..Len(origin) |-> RenderBlameLine(origin, k)])

BlameStart ==
    [blame_lines |-> <<>>, current_commit |-> None, current_author |-> None,
     current_timestamp |-> None, current_line_no |-> None, raised |-> FALSE]

\* one pass of the for loop of blame
BlameLine(s, line) ==
    IF s.raised THEN s
    ELSE IF StartsWith(line, <<"\t">>)
    THEN IF s.current_commit # None
         THEN [s EXCEPT !.blame_lines = Append(s.blame_lines,
                    [commit |-> s.current_commit[1],
                     author |-> s.current_author,
                     timestamp |-> s.current_timestamp,
                     line_no |-> s.current_line_no,
                     content |-> Tail(line)])]
         ELSE s
    ELSE IF StartsWith(line, AuthorPrefix)
    THEN [s EXCEPT !.current_author = Some(SubSeq(line, 8, Len(line)))]
    ELSE IF StartsWith(line, AuthorTimePrefix)
    THEN IF IntParse(SubSeq(line, 13, Len(line))).ok
         THEN [s EXCEPT !.current_timestamp = Some(IntParse(SubSeq(line, 13, Len(line))).val)]
         ELSE [s EXCEPT !.raised = TRUE]
    ELSE IF StartsWith(line, OriginalLinePrefix)
    THEN IF IntParse(SubSeq(line, 15, Len(line))).ok
         THEN [s EXCEPT !.current_line_no = Some(IntParse(SubSeq(line, 15, Len(line))).val)]
         ELSE [s EXCEPT !.raised = TRUE]
    ELSE IF Len(line) >= HashLen /\ \A i \in 1..HashLen : line[i] \in HexChars
    THEN [s EXCEPT !.current_commit = Some(SubSeq(line, 1, HashLen))]
    ELSE s

RECURSIVE BlameLoop(_, _)
BlameLoop(s, lines) ==
    IF lines = <<>> THEN s ELSE BlameLoop(BlameLine(s, Head(lines)), Tail(lines))

\* what git blame answers for a file: a failure, or the annotated lines
BlameResults ==
    [ok : {FALSE}, origin : {<<>>}]
    \cup [ok : {TRUE}, origin : SeqsOf(1..Len(BlameCommits), 0, MaxBlameLines)]

blame(result) ==
    LET s == IF result.ok THEN BlameLoop(BlameStart, RenderBlame(result.origin)) ELSE BlameStart
    IN  [raised |-> ~result.ok \/ s.raised, blame_lines |-> s.blame_lines]

(***************************************************************************)
(* Repository.analyze_code_ownership                                       *)
(***************************************************************************)
\* os.path.dirname
RECURSIVE RStripSlash(_)
RStripSlash(s) ==
    IF s # <<>> /\ s[Len(s)] = "/" THEN RStripSlash(SubSeq(s, 1, Len(s) - 1)) ELSE s
dirname(path) ==
    LET slashes == {i \in 1..Len(path) : path[i] = "/"}
        last == IF slashes = {} THEN 0 ELSE CHOOSE i \in slashes : \A j \in slashes : j <= i
        head == SubSeq(path, 1, last)
    IN  IF head # <<>> /\ \E i \in 1..Len(head) : head[i] # "/" THEN RStripSlash(head) ELSE head

\* author_counts[author] += 1, from 0 for a new author
CountLineOnce(author_counts, author) == DictSet(author_counts, author, 1)
CountLine(author_counts, author) ==
    DictSet(author_counts, author,
            (IF DictHas(author_counts, author) THEN DictGet(author_counts, author) ELSE 0) + 1)

\* the loop that counts the lines of a file by author
RECURSIVE CountAuthors(_, _)
CountAuthors(author_counts, blame_data) ==
    IF blame_data = <<>> THEN author_counts
    ELSE CountAuthors(CountLine(author_counts, Head(blame_data).author), Tail(blame_data))

\* the loop that adds the counts of a file to the counts of its directory
RECURSIVE AddCounts(_, _)
AddCounts(dir_counts, author_counts) ==
    IF author_counts = <<>> THEN dir_counts
    ELSE LET author == Head(author_counts).key
             before == IF DictHas(dir_counts, author) THEN DictGet(dir_counts, author) ELSE 0
         IN  AddCounts(DictSet(dir_counts, author, before + Head(author_counts).val),
                       Tail(author_counts))

\* the files of the repository, in the order git ls-files lists them:
\* src/lib/z.py, src/y.py, x.py
OwnPathOrder ==
    <<<<"s", "r", "c", "/", "l", "i", "b", "/", "z", ".", "p", "y">>,
      <<"s", "r", "c", "/", "y", ".", "p", "y">>,
      <<"x", ".", "p", "y">>>>
OwnPaths == {OwnPathOrder[i] : i \in 1..Len(OwnPathOrder)}

\* files = self.list_tracked()
InitOwnership ==
    /\ \E tracked \in SUBSET OwnPaths :
        own = [pc |-> "loop", files |-> Listed(OwnPathOrder, tracked), i |-> 1,
               file_ownership |-> <<>>, dir_ownership |-> <<>>, blamed |-> <<>>]
    /\ history = <<>>
    /\ follow = <<>>
    /\ fe = Idle
    /\ ch = Idle
    /\ hs = Idle
    /\ km = Idle
    /\ tl = Idle

\* the body of the loop for one file, when the try block creates the
\* directory's entry before the blame is asked
OwnStepDirFirst(maps, file_path, result) ==
    LET blame_data == blame(result)
        author_counts == CountAuthors(<<>>, blame_data.blame_lines)
        dir_path == dirname(file_path)
        dir_counts == IF DictHas(maps.directories, dir_path)
                      THEN DictGet(maps.directories, dir_path) ELSE <<>>
    IN  IF blame_data.raised
        THEN [maps EXCEPT !.directories = DictSet(maps.directories, dir_path, dir_counts)]
        ELSE [files |-> DictSet(maps.files, file_path, author_counts),
              directories |-> DictSet(maps.directories, dir_path,
                                      AddCounts(dir_counts, author_counts))]
\* the body of the loop for one file, when the counts of the file replace
\* the counts of its directory
OwnStepReplaceDir(maps, file_path, result) ==
    LET blame_data == blame(result)
        author_counts == CountAuthors(<<>>, blame_data.blame_lines)
    IN  IF blame_data.raised
        THEN maps
        ELSE [files |-> DictSet(maps.files, file_path, author_counts),
              directories |-> DictSet(maps.directories, dirname(file_path), author_counts)]
\* the body of the loop for one file: the try block, and the except that
\* skips the file
OwnStep(maps, file_path, result) ==
    LET blame_data == blame(result)
        author_counts == CountAuthors(<<>>, blame_data.blame_lines)
        dir_path == dirname(file_path)
        dir_counts == IF DictHas(maps.directories, dir_path)
                      THEN DictGet(maps.directories, dir_path) ELSE <<>>
    IN  IF blame_data.raised
        THEN maps
        ELSE [files |-> DictSet(maps.files, file_path, author_counts),
              directories |-> DictSet(maps.directories, dir_path,
                                      AddCounts(dir_counts, author_counts))]

\* the whole loop over a list of files, each with the answer of git blame
RECURSIVE OwnershipPass(_, _, _)
OwnershipPass(maps, files, results) ==
    IF files = <<>> THEN maps
    ELSE OwnershipPass(OwnStep(maps, Head(files), DictGet(results, Head(files))),
                       Tail(files), results)

\* one pass of the loop over the tracked files; blamed records what git
\* blame answered
OwnFile ==
    /\ own.pc = "loop"
    /\ own.i <= Len(own.files)
    /\ \E result \in BlameResults :
        LET file_path == own.files[own.i]
            step == OwnStep([files |-> own.file_ownership,
                             directories |-> own.dir_ownership], file_path, result)
        IN  own' = [own EXCEPT !.i = own.i + 1,
                               !.blamed = DictSet(own.blamed, file_path, result),
                               !.file_ownership = step.files,
                               !.dir_ownership = step.directories]
    /\ UNCHANGED <<follow, fe, history, ch, hs, km, tl>>

\* return {'files': file_ownership, 'directories': dir_ownership}
OwnReturn ==
    /\ own.pc = "loop"
    /\ own.i > Len(own.files)
    /\ own' = [own EXCEPT !.pc = "done"]
    /\ UNCHANGED <<follow, fe, history, ch, hs, km, tl>>

NextOwnership == OwnFile \/ OwnReturn

SpecOwnership == InitOwnership /\ [][NextOwnership]_vars

(***************************************************************************)
(* Ownership claims                                                        *)
(***************************************************************************)
RECURSIVE SumCounts(_)
SumCounts(author_counts) ==
    IF author_counts = <<>> THEN 0 ELSE Head(author_counts).val + SumCounts(Tail(author_counts))
\* the content lines (a tab, then the text) of the blame stream of a file
ContentLines(path) ==
    LET stream == RenderBlame(DictGet(own.blamed, path).origin)
    IN  {k \in 1..Len(stream) : StartsWith(stream[k], <<"\t">>)}

\* C10: for every file of the per-file ownership map, the per-author line
\* counts add up to the number of content lines of the file's blame stream.
C10_CountsSumToLines ==
    \A p \in DictKeys(own.file_ownership) :
        SumCounts(DictGet(own.file_ownership, p)) = Cardinality(ContentLines(p))

\* the map holds a file with lines of two authors, one of them with more
\* than one line
C10_Witness ==
    /\ own.pc = "done"
    /\ \E p \in DictKeys(own.file_ownership) :
        /\ Len(DictGet(own.file_ownership, p)) >= 2
        /\ \E i \in 1..Len(DictGet(own.file_ownership, p)) :
            DictGet(own.file_ownership, p)[i].val >= 2

\* the tracked files whose blame failed
BlameFailed == {p \in DictKeys(own.blamed) : ~DictGet(own.blamed, p).ok}

\* C11: a tracked file whose blame fails is in neither map, the pass goes on
\* to the files after it, and the maps returned are those of the same pass
\* over the tracked-file list without the failing files.
C11_FailedFileSkipped ==
    /\ \A p \in BlameFailed : ~DictHas(own.file_ownership, p)
    /\ own.pc \in {"loop", "done"}
    /\ own.pc = "done" =>
        /\ DictKeys(own.blamed) = {own.files[i] : i \in 1..Len(own.files)}
        /\ [files |-> own.file_ownership, directories |-> own.dir_ownership]
            = OwnershipPass([files |-> <<>>, directories |-> <<>>],
                            Listed(own.files, DictKeys(own.blamed) \ BlameFailed),
                            own.blamed)

\* the pass is over, the blame of one file failed, and a file listed after
\* it is in the per-file map with a line counted
C11_Witness ==
    /\ own.pc = "done"
    /\ \E i, j \in 1..Len(own.files) :
        /\ i < j
        /\ own.files[i] \in BlameFailed
        /\ DictHas(own.file_ownership, own.files[j])
        /\ SumCounts(DictGet(own.file_ownership, own.files[j])) >= 1

(***************************************************************************)
(* Analytics.analyze_knowledge_map                                         *)
(***************************************************************************)
MaxKmLines == 1     \* lines of a file the knowledge map reads the blame of

Unknown == <<"u", "n", "k", "n", "o", "w", "n">>
\* the index of the last c of s, 0 when there is none (str.rfind, from 1)
LastIndex(s, c) ==
    LET at == {i \in 1..Len(s) : s[i] = c}
    IN  IF at = {} THEN 0 ELSE CHOOSE i \in at : \A j \in at : j <= i
\* os.path.splitext(path)[1]: from the last dot of the last component, unless
\* only dots come before it in that component
splitext(path) ==
    LET sepIndex == LastIndex(path, "/")
        dotIndex == LastIndex(path, ".")
    IN  IF dotIndex > sepIndex /\ \E k \in (sepIndex + 1)..(dotIndex - 1) : path[k] # "."
        THEN SubSeq(path, dotIndex, Len(path)) ELSE <<>>
\* analytics.py: path.lower().split('.')[-1] if '.' in path else 'unknown'
extension_analytics(path) ==
    IF Contains(path, <<".">>) THEN AfterLast(Lower(path), ".") ELSE Unknown
\* api.py: os.path.splitext(path)[1].lower(), 'unknown' when empty, else
\* without the leading dot
extension_api(path) ==
    LET extension == Lower(splitext(path))
    IN  IF extension = <<>> THEN Unknown ELSE Tail(extension)
KmImpls == {"analytics", "api"}
extension_of(impl, path) ==
    IF impl = "analytics" THEN extension_analytics(path) ELSE extension_api(path)

\* the files of the repository, in the order git ls-files lists them:
\* conf.d/Makefile, src/lib/z.py, x.py, w.py
KmPathOrder ==
    <<<<"c", "o", "n", "f", ".", "d", "/", "M", "a", "k", "e", "f", "i", "l", "e">>,
      OwnPathOrder[1], OwnPathOrder[3], <<"w", ".", "p", "y">>>>
KmPaths == {KmPathOrder[i] : i \in 1..Len(KmPathOrder)}
KmBlameResults ==
    [ok : {FALSE}, origin : {<<>>}]
    \cup [ok : {TRUE}, origin : SeqsOf(1..Len(BlameCommits), 0, MaxKmLines)]

\* Repository.analyze_code_ownership over a listing, with the answers of git
\* blame
analyze_code_ownership(files, results) ==
    OwnershipPass([files |-> <<>>, directories |-> <<>>], files,
                  [i \in 1..Len(files) |-> [key |-> files[i], val |-> results[files[i]]]])

\* a ratio of integers, for the float of repository_contribution
Ratio(n, d) == [num |-> n, den |-> d]
NewExpertise ==
    [files |-> <<>>, directories |-> <<>>, languages |-> <<>>, total_lines |-> 0,
     repository_contribution |-> Ratio(0, 1)]

\* the body of the loop over the authors of a file
KmAuthor(expertise_map, path, extension, author, line_count) ==
    LET expertise == IF DictHas(expertise_map, author) THEN DictGet(expertise_map, author)
                     ELSE NewExpertise
        before == IF DictHas(expertise.languages, extension)
                  THEN DictGet(expertise.languages, extension) ELSE 0
    IN  DictSet(expertise_map, author,
                [expertise EXCEPT !.files = DictSet(@, path, line_count),
                                  !.total_lines = @ + line_count,
                                  !.languages = DictSet(@, extension, before + line_count)])
RECURSIVE KmAuthors(_, _, _, _)
KmAuthors(expertise_map, path, extension, authors) ==
    IF authors = <<>> THEN expertise_map
    ELSE KmAuthors(KmAuthor(expertise_map, path, extension,
                            Head(authors).key, Head(authors).val),
                   path, extension, Tail(authors))

\* the body of the loop over the authors of a directory
RECURSIVE KmDirAuthors(_, _, _)
KmDirAuthors(expertise_map, dir_path, authors) ==
    IF authors = <<>> THEN expertise_map
    ELSE LET author == Head(authors).key
             next == IF DictHas(expertise_map, author)
                     THEN DictSet(expertise_map, author,
                             [DictGet(expertise_map, author) EXCEPT
                                 !.directories = DictSet(@, dir_path, Head(authors).val)])
                     ELSE expertise_map
         IN  KmDirAuthors(next, dir_path, Tail(authors))

\* sum(data['total_lines'] for data in expertise_map.values())
RECURSIVE TotalLines(_)
TotalLines(expertise_map) ==
    IF expertise_map = <<>> THEN 0
    ELSE Head(expertise_map).val.total_lines + TotalLines(Tail(expertise_map))

\* (total_lines / total) * 100, or 0
ContributionFloorDiv(author_lines, total_lines) ==
    IF total_lines > 0 THEN Ratio((author_lines \div total_lines) * 100, 1) ELSE Ratio(0, 1)
Contribution(author_lines, total_lines) ==
    IF total_lines > 0 THEN Ratio(author_lines * 100, total_lines) ELSE Ratio(0, 1)

InitKnowledge ==
    /\ \E impl \in KmImpls :
        km = [pc |-> "ownership", impl |-> impl,
              ownership |-> [files |-> <<>>, directories |-> <<>>],
              i |-> 1, expertise_map |-> <<>>]
    /\ history = <<>>
    /\ follow = <<>>
    /\ fe = Idle
    /\ ch = Idle
    /\ hs = Idle
    /\ own = Idle
    /\ tl = Idle

\* ownership = repo.analyze_code_ownership()
KmOwnership ==
    /\ km.pc = "ownership"
    /\ \E tracked \in SUBSET KmPaths :
        \E results \in [tracked -> KmBlameResults] :
            km' = [km EXCEPT !.pc = "files",
                     !.ownership = analyze_code_ownership(Listed(KmPathOrder, tracked), results)]
    /\ UNCHANGED <<follow, fe, history, ch, hs, own, tl>>

\* one pass of the loop over ownership['files']
KmFile ==
    /\ km.pc = "files"
    /\ km.i <= Len(km.ownership.files)
    /\ LET path == km.ownership.files[km.i].key
           authors == km.ownership.files[km.i].val
       IN  km' = [km EXCEPT !.i = km.i + 1,
                    !.expertise_map = KmAuthors(km.expertise_map, path,
                                                extension_of(km.impl, path), authors)]
    /\ UNCHANGED <<follow, fe, history, ch, hs, own, tl>>

KmFilesDone ==
    /\ km.pc = "files"
    /\ km.i > Len(km.ownership.files)
    /\ km' = [km EXCEPT !.pc = "directories", !.i = 1]
    /\ UNCHANGED <<follow, fe, history, ch, hs, own, tl>>

\* one pass of the loop over ownership['directories']
KmDirectory ==
    /\ km.pc = "directories"
    /\ km.i <= Len(km.ownership.directories)
    /\ km' = [km EXCEPT !.i = km.i + 1,
                !.expertise_map = KmDirAuthors(km.expertise_map,
                                               km.ownership.directories[km.i].key,
                                               km.ownership.directories[km.i].val)]
    /\ UNCHANGED <<follow, fe, history, ch, hs, own, tl>>

\* the repository contribution of every author, and the return
KmContribution ==
    /\ km.pc = "directories"
    /\ km.i > Len(km.ownership.directories)
    /\ LET total_lines == TotalLines(km.expertise_map)
       IN  km' = [km EXCEPT !.pc = "done",
                    !.expertise_map =
                        [a \in 1..Len(km.expertise_map) |->
                            [key |-> km.expertise_map[a].key,
                             val |-> [km.expertise_map[a].val EXCEPT
                                 !.repository_contribution =
                                     Contribution(km.expertise_map[a].val.total_lines,
                                                  total_lines)]]]]
    /\ UNCHANGED <<follow, fe, history, ch, hs, own, tl>>

NextKnowledge == KmOwnership \/ KmFile \/ KmFilesDone \/ KmDirectory \/ KmContribution

SpecKnowledge == InitKnowledge /\ [][NextKnowledge]_vars

(***************************************************************************)
(* Knowledge map claims                                                    *)
(***************************************************************************)
KmReturned == km.pc = "done"
KmAuthorsOf == DictKeys(km.expertise_map)
Expertise(author) == DictGet(km.expertise_map, author)
\* the sum of the ratios of a map of expertise records
RECURSIVE ContributionSum(_)
ContributionSum(expertise_map) ==
    IF expertise_map = <<>> THEN Ratio(0, 1)
    ELSE LET r == Head(expertise_map).val.repository_contribution
             rest == ContributionSum(Tail(expertise_map))
         IN  Ratio(r.num * rest.den + rest.num * r.den, r.den * rest.den)
\* the lines the ownership maps attribute to an author, over all files
RECURSIVE AttributedLines(_, _)
AttributedLines(files, author) ==
    IF files = <<>> THEN 0
    ELSE (IF DictHas(Head(files).val, author) THEN DictGet(Head(files).val, author) ELSE 0)
         + AttributedLines(Tail(files), author)
KmAllLines ==
    LET authors == UNION {DictKeys(km.ownership.files[i].val) :
                            i \in 1..Len(km.ownership.files)}
        Sum[S \in SUBSET authors] ==
            IF S = {} THEN 0
            ELSE LET a == CHOOSE x \in S : TRUE
                 IN  AttributedLines(km.ownership.files, a) + Sum[S \ {a}]
    IN  Sum[authors]

NameExtension(path) ==
    LET name == AfterLast(path, "/")
    IN  IF Contains(name, <<".">>) THEN AfterLast(name, ".") ELSE Unknown
\* the line counts of an author for the files with a given extension
RECURSIVE LanguageLines(_, _)
LanguageLines(files, extension) ==
    IF files = <<>> THEN 0
    ELSE (IF NameExtension(Head(files).key) = extension THEN Head(files).val ELSE 0)
         + LanguageLines(Tail(files), extension)

\* C18: the line counts of every owned file are added under the language key
\* that is the extension of the file's name, 'unknown' for a name without an
\* extension, and no language key holds a '/'.
C18_LanguageKeyIsNameExtension ==
    KmReturned =>
        \A a \in KmAuthorsOf :
            /\ DictKeys(Expertise(a).languages)
                = {NameExtension(p) : p \in DictKeys(Expertise(a).files)}
            /\ \A k \in DictKeys(Expertise(a).languages) :
                /\ ~Contains(k, <<"/">>)
                /\ DictGet(Expertise(a).languages, k) = LanguageLines(Expertise(a).files, k)

(***************************************************************************)
(* datetime.fromtimestamp, isocalendar and strftime (the local time zone   *)
(* is UTC)                                                                 *)
(***************************************************************************)
\* the days from 1970-01-01 to a date of the Gregorian calendar
DaysFromCivil(year, month, day) ==
    LET y == IF month <= 2 THEN year - 1 ELSE year
        era == y \div 400
        yoe == y - era * 400
        mp == IF month > 2 THEN month - 3 ELSE month + 9
        doy == (153 * mp + 2) \div 5 + day - 1
        doe == yoe * 365 + yoe \div 4 - yoe \div 100 + doy
    IN  era * 146097 + doe - 719468
\* datetime.fromtimestamp(timestamp): year, month, day, hour, and the day
\* number
fromtimestamp(timestamp) ==
    LET days == timestamp \div 86400
        z == days + 719468
        era == z \div 146097
        doe == z - era * 146097
        yoe == (doe - doe \div 1460 + doe \div 36524 - doe \div 146096) \div 365
        doy == doe - (365 * yoe + yoe \div 4 - yoe \div 100)
        mp == (5 * doy + 2) \div 153
        month == IF mp < 10 THEN mp + 3 ELSE mp - 9
    IN  [year |-> yoe + era * 400 + (IF month <= 2 THEN 1 ELSE 0),
         month |-> month,
         day |-> doy - (153 * mp + 2) \div 5 + 1,
         hour |-> (timestamp % 86400) \div 3600,
         days |-> days]
\* the day number of the Monday of ISO week 1 of a year
isoweek1monday(year) ==
    LET firstday == DaysFromCivil(year, 1, 1)
        firstweekday == (firstday + 3) % 7
    IN  IF firstweekday > 3 THEN firstday - firstweekday + 7 ELSE firstday - firstweekday
\* dt.isocalendar(): the ISO year and the ISO week
isocalendar(dt) ==
    LET week == (dt.days - isoweek1monday(dt.year)) \div 7
    IN  IF dt.days < isoweek1monday(dt.year)
        THEN [year |-> dt.year - 1,
              week |-> (dt.days - isoweek1monday(dt.year - 1)) \div 7 + 1]
        ELSE IF week >= 52 /\ dt.days >= isoweek1monday(dt.year + 1)
        THEN [year |-> dt.year + 1, week |-> 1]
        ELSE [year |-> dt.year, week |-> week + 1]
\* %m, %d, %H and :02d
Pad2(n) == IF n < 10 THEN <<"0">> \o Str(n) ELSE Str(n)

Periods == {"hour", "day", "week", "month", "year"}
\* Analytics._format_time_period: the key, or the ValueError
format_time_period(timestamp, period) ==
    LET dt == fromtimestamp(timestamp)
        ymd == Str(dt.year) \o <<"-">> \o Pad2(dt.month) \o <<"-">> \o Pad2(dt.day)
    IN  IF period = "hour"
        THEN [raised |-> FALSE, key |-> ymd \o <<" ">> \o Pad2(dt.hour) \o <<":", "0", "0">>]
        ELSE IF period = "day"
        THEN [raised |-> FALSE, key |-> ymd]
        ELSE IF period = "week"
        THEN [raised |-> FALSE,
              key |-> Str(dt.year) \o <<"-", "W">> \o Pad2(isocalendar(dt).week)]
        ELSE IF period = "month"
        THEN [raised |-> FALSE, key |-> Str(dt.year) \o <<"-">> \o Pad2(dt.month)]
        ELSE IF period = "year"
        THEN [raised |-> FALSE, key |-> Str(dt.year)]
        ELSE [raised |-> TRUE, key |-> <<>>]

(***************************************************************************)
(* Analytics.analyze_commit_history_timeline                               *)
(***************************************************************************)
MaxTlCommits == 3   \* commits in the history the timeline reads

\* 2020-12-31 23:00, 2021-01-01 00:00 (a Friday) and 2021-01-04 00:00 (the
\* Monday of ISO week 1 of 2021)
NewYearsEve == 1609455600
NewYearsDay == 1609459200
FirstMonday == 1609718400
TlTimes == {NewYearsEve, NewYearsDay, FirstMonday}
TlHistories == SeqsOf(Commits({Alice}, TlTimes, {}), 0, MaxTlCommits)
\* the period argument: a period, or another value
TlPeriods == Periods \cup {"fortnight"}
TlOptions ==
    [author_filter : {None},
     since_date : {None, Some(FirstMonday)},
     until_date : {None, Some(NewYearsEve)},
     max_commits : {None, Some(0), Some(1), Some(0 - 1)},
     skip_commits : {None, Some(1)}]

\* git log --pretty=format:%at
RenderTimes(h) == [i \in 1..Len(h) |-> Str(h[i].timestamp)]
\* [int(line.strip()) for line in output.splitlines() if line.strip()]
ParseTimes(output) ==
    LET lines == SelectSeq(output, LAMBDA line : Strip(line) # <<>>)
    IN  [raised |-> \E i \in 1..Len(lines) : ~IntParse(lines[i]).ok,
         timestamps |-> [i \in 1..Len(lines) |-> IntParse(lines[i]).val]]

\* timeline[key] += 1, from 0 for a new key
CountKeyOnce(timeline, key) == DictSet(timeline, key, 1)
CountKey(timeline, key) ==
    DictSet(timeline, key, (IF DictHas(timeline, key) THEN DictGet(timeline, key) ELSE 0) + 1)

InitTimeline ==
    /\ history \in TlHistories
    /\ \E period \in TlPeriods, options \in TlOptions :
        tl = [pc |-> "query", period |-> period, options |-> options, queries |-> 0,
              timestamps |-> <<>>, i |-> 1, timeline |-> <<>>]
    /\ follow = <<>>
    /\ fe = Idle
    /\ ch = Idle
    /\ hs = Idle
    /\ own = Idle
    /\ km = Idle

\* args, output = repo._repo._run_git_command(args), timestamps
TlQuery ==
    /\ tl.pc = "query"
    /\ LET parsed == ParseTimes(RenderTimes(GitLog(history, TimelineArgs(tl.options))))
       IN  tl' = IF parsed.raised
                 THEN [tl EXCEPT !.pc = "raised", !.queries = tl.queries + 1]
                 ELSE [tl EXCEPT !.pc = "loop", !.queries = tl.queries + 1,
                                 !.timestamps = parsed.timestamps]
    /\ UNCHANGED <<follow, fe, history, ch, hs, own, km>>

\* one pass of the loop over the timestamps, when the dict it counts in is
\* kept between calls and the churn call records its paths in it too
TlBucketShared ==
    /\ tl.pc = "loop"
    /\ tl.i <= Len(tl.timestamps)
    /\ LET formatted == format_time_period(tl.timestamps[tl.i], tl.period)
           shared == IF ch.pc = "idle" \/ ch.churn = <<>> THEN tl.timeline
                     ELSE CountKey(tl.timeline, ch.churn[1].key)
       IN  tl' = IF formatted.raised
                 THEN [tl EXCEPT !.pc = "raised"]
                 ELSE [tl EXCEPT !.i = tl.i + 1,
                                 !.timeline = CountKey(shared, formatted.key)]
    /\ UNCHANGED <<follow, fe, history, ch, hs, own, km>>
\* one pass of the loop over the timestamps
TlBucket ==
    /\ tl.pc = "loop"
    /\ tl.i <= Len(tl.timestamps)
    /\ LET formatted == format_time_period(tl.timestamps[tl.i], tl.period)
       IN  tl' = IF formatted.raised
                 THEN [tl EXCEPT !.pc = "raised"]
                 ELSE [tl EXCEPT !.i = tl.i + 1,
                                 !.timeline = CountKey(tl.timeline, formatted.key)]
    /\ UNCHANGED <<follow, fe, history, ch, hs, own, km>>

\* return timeline
TlReturn ==
    /\ tl.pc = "loop"
    /\ tl.i > Len(tl.timestamps)
    /\ tl' = [tl EXCEPT !.pc = "done"]
    /\ UNCHANGED <<follow, fe, history, ch, hs, own, km>>

NextTimeline == TlQuery \/ TlBucket \/ TlReturn

SpecTimeline == InitTimeline /\ [][NextTimeline]_vars

(***************************************************************************)
(* Timeline claims                                                         *)
(***************************************************************************)
TlReturned == tl.pc = "done"
\* the timestamps the loop has bucketed so far
TlBucketed == 1..(tl.i - 1)
TlKeyOf(j) == format_time_period(tl.timestamps[j], tl.period).key
RECURSIVE SumTimeline(_)
SumTimeline(timeline) ==
    IF timeline = <<>> THEN 0 ELSE Head(timeline).val + SumTimeline(Tail(timeline))

\* C13: for every period and every sequence of timestamps of the window, the
\* bucket counts add up to the number of timestamps, every key has a count of
\* at least 1, and a key is present only if a timestamp maps to it.
C13_BucketsSumToCommits ==
    (tl.pc \in {"loop", "done"} /\ tl.period \in Periods) =>
        /\ SumTimeline(tl.timeline) = Cardinality(TlBucketed)
        /\ TlReturned => SumTimeline(tl.timeline) = Len(tl.timestamps)
        /\ \A k \in DictKeys(tl.timeline) :
            /\ DictGet(tl.timeline, k) >= 1
            /\ DictGet(tl.timeline, k) = Cardinality({j \in TlBucketed : TlKeyOf(j) = k})
        /\ \A j \in TlBucketed : DictHas(tl.timeline, TlKeyOf(j))

\* a timeline is returned with two commits in one bucket and a commit in
\* another
C13_Witness ==
    /\ TlReturned
    /\ tl.period \in Periods
    /\ \E k \in DictKeys(tl.timeline) : DictGet(tl.timeline, k) >= 2
    /\ Len(tl.timeline) >= 2

\* the ISO 8601 week key of a timestamp: the week-numbering year and the week
IsoWeekKey(timestamp) ==
    LET iso == isocalendar(fromtimestamp(timestamp))
    IN  Str(iso.year) \o <<"-", "W">> \o Pad2(iso.week)

\* C14: for period week the key of a timestamp is 'YYYY-Www' with the ISO
\* week-numbering year and the ISO week of its date; 2021-01-01 is in
\* '2020-W53'.
C14_WeekKeyIsIsoYearWeek ==
    (tl.pc \in {"loop", "done"} /\ tl.period = "week") =>
        DictKeys(tl.timeline) = {IsoWeekKey(tl.timestamps[j]) : j \in TlBucketed}

\* C15: a period outside hour, day, week, month, year always ends in a
\* ValueError, for every history, an empty one included; no timeline is
\* returned.
C15_UnknownPeriodRaises ==
    tl.period \notin Periods => ~TlReturned

\* a window with since_date after until_date, or a negative max_commits or
\* skip_commits
InvalidWindow(options) ==
    \/ /\ options.since_date # None
       /\ options.until_date # None
       /\ options.since_date[1] > options.until_date[1]
    \/ options.max_commits # None /\ options.max_commits[1] < 0
    \/ options.skip_commits # None /\ options.skip_commits[1] < 0

\* C16: a call whose window has since_date > until_date, or a negative
\* max_commits or skip_commits, is rejected before any query is issued to
\* git; it never returns a result.
C16_InvalidWindowRejected ==
    InvalidWindow(tl.options) => (tl.queries = 0 /\ ~TlReturned)

\* C21: every window field that is set is a constraint of the query issued;
\* with max_commits = m, for any m >= 0 and 0 too, the timeline aggregates
\* at most m commits.
C21_MaxCommitsBoundsResult ==
    (TlReturned /\ tl.options.max_commits # None /\ tl.options.max_commits[1] >= 0) =>
        SumTimeline(tl.timeline) <= tl.options.max_commits[1]

\* the lines of an author in the successfully blamed files whose immediate
\* parent directory is d
RECURSIVE DirectoryLines(_, _, _)
DirectoryLines(files, author, d) ==
    IF files = <<>> THEN 0
    ELSE (IF dirname(Head(files).key) = d /\ DictHas(Head(files).val, author)
          THEN DictGet(Head(files).val, author) ELSE 0)
         + DirectoryLines(Tail(files), author, d)

\* C22: for every author and every directory key d, the per-directory count
\* of the ownership map and the author's directories[d] in the knowledge map
\* both equal the sum of the author's per-file counts over the blamed files
\* whose immediate parent is d ('' for top-level files); files of
\* sub-directories are not included, and an author has directory entries only
\* if the author owns a file line.
C22_DirectoryRollup ==
    KmReturned =>
        /\ \A k \in 1..Len(km.ownership.directories) :
            LET d == km.ownership.directories[k].key
                counts == km.ownership.directories[k].val
            IN  \A author \in DictKeys(counts) :
                    /\ DictGet(counts, author) = DirectoryLines(km.ownership.files, author, d)
                    /\ author \in KmAuthorsOf
                    /\ DictHas(Expertise(author).directories, d)
                    /\ DictGet(Expertise(author).directories, d)
                        = DirectoryLines(km.ownership.files, author, d)
        /\ \A author \in KmAuthorsOf :
            /\ DictKeys(Expertise(author).directories) # {} => Expertise(author).total_lines > 0
            /\ \A d \in DictKeys(Expertise(author).directories) :
                /\ DictHas(km.ownership.directories, d)
                /\ DictGet(Expertise(author).directories, d)
                    = DirectoryLines(km.ownership.files, author, d)
\* an author owns a line in each of two top-level files and in files of
\* sub-directories of the root
C22_Witness ==
    /\ KmReturned
    /\ \E author \in KmAuthorsOf :
        /\ DictHas(Expertise(author).directories, <<>>)
        /\ DictGet(Expertise(author).directories, <<>>) = 2
        /\ DictHas(Expertise(author).directories, <<"c", "o", "n", "f", ".", "d">>)
        /\ DictHas(Expertise(author).directories, <<"s", "r", "c", "/", "l", "i", "b">>)

(***************************************************************************)
(* A file that the newest commit deleted: every commit of the history      *)
(* touches a.py alone, git ls-files no longer lists it, and git log        *)
(* --follow --patch prints one record per commit, the newest one removing  *)
(* the lines of the file and the oldest one adding them. One analysis runs *)
(* per behaviour.                                                          *)
(***************************************************************************)
DeletedHistories == SeqsOf({c \in Commits({Alice}, {1}, Paths) : c.paths = {PathOrder[1]}},
                           1, MaxCommits)
\* the record of the i-th of n commits, newest first
DeletedRecords(i, n) ==
    {r \in FollowRecords :
        /\ r.subject = <<"f", "i", "x">>
        /\ r.patch \in {ContentPatch(<<line>>) : line \in HunkLines}
        /\ i = 1 => r.patch = ContentPatch(<<<<"-", "y">>>>)
        /\ (i = n /\ n > 1) => r.patch = ContentPatch(<<<<"+", "x">>>>)}
InitDeleted ==
    /\ history \in DeletedHistories
    /\ follow \in {f \in SeqsOf(FollowRecords, Len(history), Len(history)) :
                      \A i \in 1..Len(f) : f[i] \in DeletedRecords(i, Len(f))}
    /\ \/ /\ ch = ChurnStart(RenderChurnLog(history, PathOrder), NoWindow)
          /\ fe = Idle
          /\ km = Idle
       \/ /\ ch = Idle
          /\ fe = EvolutionStart(RenderFollow(follow))
          /\ km = Idle
       \/ /\ ch = Idle
          /\ fe = Idle
          /\ \E impl \in KmImpls :
              km = [pc |-> "ownership", impl |-> impl,
                    ownership |-> [files |-> <<>>, directories |-> <<>>],
                    i |-> 1, expertise_map |-> <<>>]
    /\ hs = Idle
    /\ own = Idle
    /\ tl = Idle

NextDeleted == NextChurn \/ NextEvolution \/ NextKnowledge

SpecDeleted == InitDeleted /\ [][NextDeleted]_vars

\* C23: when commits A, B, C each touch the file and C deletes it, so that
\* the listing at tip lacks it, the churn record of the file has
\* change_count 3, the file is a key of neither the ownership per-file map
\* nor any author's files, and the evolution of the file has 3 entries.
C23_DeletedFileScenario ==
    Len(history) = 3 =>
        /\ ch.pc # "raised"
        /\ ChurnReturned =>
            /\ DictHas(ch.churn, PathOrder[1])
            /\ DictGet(ch.churn, PathOrder[1]).change_count = 3
        /\ km.pc \notin {"idle", "ownership"} =>
            /\ ~DictHas(km.ownership.files, PathOrder[1])
            /\ \A author \in KmAuthorsOf : ~DictHas(Expertise(author).files, PathOrder[1])
        /\ fe.pc # "raised"
        /\ EvoReturned => Len(fe.evolution) = 3

(***************************************************************************)
(* Two calls on one repository: analyze_code_churn and                     *)
(* analyze_commit_history_timeline, their steps interleaved                *)
(***************************************************************************)
InitIndependent ==
    /\ history \in SeqsOf(Commits({Alice}, {NewYearsEve, FirstMonday}, {PathOrder[1]}),
                          0, MaxTlCommits)
    /\ ch = ChurnStart(RenderChurnLog(history, PathOrder), NoWindow)
    /\ \E period \in {"week", "fortnight"},
          options \in {NoWindow, [NoWindow EXCEPT !.max_commits = Some(1)]} :
        tl = [pc |-> "query", period |-> period, options |-> options, queries |-> 0,
              timestamps |-> <<>>, i |-> 1, timeline |-> <<>>]
    /\ follow = <<>>
    /\ fe = Idle
    /\ hs = Idle
    /\ own = Idle
    /\ km = Idle

NextIndependent == NextChurn \/ NextTimeline

SpecIndependent == InitIndependent /\ [][NextIndependent]_vars

\* what analyze_commit_history_timeline returns when it runs alone
RECURSIVE TimelineOf(_, _, _)
TimelineOf(timestamps, period, timeline) ==
    IF timestamps = <<>> THEN [raised |-> FALSE, timeline |-> timeline]
    ELSE LET formatted == format_time_period(Head(timestamps), period)
         IN  IF formatted.raised THEN [raised |-> TRUE, timeline |-> <<>>]
             ELSE TimelineOf(Tail(timestamps), period, CountKey(timeline, formatted.key))
TimelineAlone(h, period, options) ==
    LET parsed == ParseTimes(RenderTimes(GitLog(h, TimelineArgs(options))))
    IN  IF parsed.raised THEN [raised |-> TRUE, timeline |-> <<>>]
        ELSE TimelineOf(parsed.timestamps, period, <<>>)
\* what analyze_code_churn returns when it runs alone
RECURSIVE ChurnOf(_, _, _)
ChurnOf(output, current_commit, churn) ==
    IF output = <<>> THEN churn
    ELSE LET line == Head(output)
             metrics == IF DictHas(churn, line) THEN DictGet(churn, line)
                        ELSE [change_count |-> 0, commits |-> {}]
         IN  IF Strip(line) = <<>> THEN ChurnOf(Tail(output), current_commit, churn)
             ELSE IF current_commit = None THEN ChurnOf(Tail(output), Some(line), churn)
             ELSE ChurnOf(Tail(output), current_commit,
                          DictSet(churn, line,
                                  [change_count |-> metrics.change_count + 1,
                                   commits |-> metrics.commits \cup {current_commit[1]}]))
ChurnAlone(h) ==
    LET raw == ChurnOf(RenderChurnLog(h, PathOrder), None, <<>>)
        frequency == analyze_change_frequency(RenderFrequencyLog(h, PathOrder))
    IN  [raised |-> frequency.raised,
         churn |-> MergeAll([i \in 1..Len(raw) |->
                                [key |-> raw[i].key, val |-> Unmerged(raw[i].val)]],
                            frequency.result)]

HashLinesRead == {j \in 1..(ch.i - 1) : \E k \in 1..Len(history) : ch.output[j] = CommitHash(k)}

\* C25: for a log of two or more commits, each a hash line followed by its
\* touched paths, the keys of the churn map are the paths touched by at
\* least one commit, no hash line of the log is ever a key, and
\* current_commit is the hash of the commit whose paths are being read.
C25_ChurnKeysAreTouchedPaths ==
    (Len(history) >= 2 /\ \A k \in 1..Len(history) : history[k].paths # {}) =>
        /\ ChurnReturned =>
            DictKeys(ch.churn) = UNION {history[k].paths : k \in 1..Len(history)}
        /\ \A k \in 1..Len(history) : ~DictHas(ch.churn, CommitHash(k))
        /\ ch.current_commit # None =>
            ch.current_commit[1] = CommitHash(Cardinality(HashLinesRead))

(***************************************************************************)
(* Blame attribution                                                       *)
(***************************************************************************)
\* the lines of a blamed file that come from commits of an author
LinesOfAuthor(origin, author) ==
    Cardinality({j \in 1..Len(origin) : BlameCommits[origin[j]].author = author})
CountOf(author_counts, author) ==
    IF DictHas(author_counts, author) THEN DictGet(author_counts, author) ELSE 0

\* C26: when git prints a commit's 'author' and 'author-time' lines only
\* with its first line group, every parsed blame line still carries the
\* author and timestamp of the commit its own header names, so lines of one
\* commit have one author, and the per-author counts of a file are the line
\* counts of the authors of the commits.
C26_BlameLineHasItsCommitAuthor ==
    own.pc # "idle" =>
        \A k \in 1..Len(own.blamed) :
            LET file_path == own.blamed[k].key
                origin == own.blamed[k].val.origin
                blame_lines == blame(own.blamed[k].val).blame_lines
            IN  own.blamed[k].val.ok =>
                    /\ Len(blame_lines) = Len(origin)
                    /\ \A j \in 1..Len(origin) :
                        /\ blame_lines[j].commit = CommitHash(origin[j])
                        /\ blame_lines[j].author = Some(BlameCommits[origin[j]].author)
                        /\ blame_lines[j].timestamp = Some(BlameCommits[origin[j]].timestamp)
                    /\ \A i, j \in 1..Len(blame_lines) :
                        blame_lines[i].commit = blame_lines[j].commit
                            => blame_lines[i].author = blame_lines[j].author
                    /\ \A author \in Authors :
                        CountOf(DictGet(own.file_ownership, file_path), Some(author))
                            = LinesOfAuthor(origin, author)

====
